---- MODULE Spec2Model ----
(***************************************************************************)
(* Model of docs/scripts/validate.js: the NDJSON validation script.  The   *)
(* script reads one file, splits it into lines, parses every line as JSON, *)
(* sends each record to one of the three jskos-validate validators         *)
(* (mapping, concept, scheme) or skips it, and prints a summary.           *)
(*                                                                         *)
(* JavaScript values are records tagged by their type in field t.  A       *)
(* string is a sequence of tokens, so that String.prototype.includes is a  *)
(* real substring test: 'skos:ConceptScheme' is <<"skos:", "Concept",      *)
(* "Scheme">> and contains both <<"skos:", "Concept">> and                 *)
(* <<"Concept", "Scheme">>.                                                *)
(***************************************************************************)
EXTENDS Integers, Sequences, FiniteSets, TLC

(* ---------------------------- bounds ---------------------------------- *)
\* longest file, in lines before trimming and filtering
MaxLines == 2
\* most error messages one validator call leaves behind
MaxMsgs == 2

(* ------------------------- JavaScript values -------------------------- *)
Undefined == [t |-> "undefined"]
Null == [t |-> "null"]
Bool(b) == [t |-> "boolean", b |-> b]
Num(n) == [t |-> "number", n |-> n]
Str(s) == [t |-> "string", s |-> s]
Arr(a) == [t |-> "array", a |-> a]
Obj(f) == [t |-> "object", f |-> f]

\* the tokens strings are made of
NS == "http://www.w3.org/2004/02/skos/core#"
SkosConcept == <<"skos:", "Concept">>
ConceptScheme == <<"Concept", "Scheme">>
SkosConceptScheme == <<"skos:", "Concept", "Scheme">>
UriConceptScheme == <<NS, "Concept", "Scheme">>

\* ToBoolean: undefined, null, false, 0 and "" are falsy, all else truthy
Truthy(v) ==
  CASE v.t = "undefined" -> FALSE
    [] v.t = "null" -> FALSE
    [] v.t = "boolean" -> v.b
    [] v.t = "number" -> v.n # 0
    [] v.t = "string" -> v.s # <<>>
    [] OTHER -> TRUE

\* a || b
Or(a, b) == IF Truthy(a) THEN a ELSE b

\* a && b
And(a, b) == IF Truthy(a) THEN b ELSE a

\* item[name] on a value that is neither null nor undefined: own properties
\* of an object parsed from JSON; primitives and arrays have none of the
\* names the script reads
Get(item, name) ==
  IF item.t = "object" /\ name \in DOMAIN item.f THEN item.f[name]
  ELSE Undefined

\* property access throws a TypeError on null and undefined
GetThrows(item) == item.t \in {"null", "undefined"}

\* String.prototype.includes: substring test
StrIncludes(h, n) ==
  \E i \in 0..(Len(h) - Len(n)) : SubSeq(h, i + 1, i + Len(n)) = n

\* variant: an element that contains the value counts as well
ArrIncludesSubstring(a, n) ==
  \E i \in 1..Len(a) : a[i].t = "string" /\ StrIncludes(a[i].s, n)

\* Array.prototype.includes: some element is the value itself
ArrIncludes(a, n) == \E i \in 1..Len(a) : a[i] = Str(n)

\* only strings and arrays have an includes method
HasIncludes(v) == v.t \in {"string", "array"}

\* v.includes(n) for a v that has the method
Includes(v, n) ==
  IF v.t = "string" THEN StrIncludes(v.s, n) ELSE ArrIncludes(v.a, n)

(* --------------------------- classification --------------------------- *)
\* variant: `@type` looked at first
TypeFieldAtFirst(item) == Or(Get(item, "@type"), Get(item, "type"))

\* const typeField = item.type || item["@type"]
TypeFieldOf(item) == Or(Get(item, "type"), Get(item, "@type"))

\* variant: a record with `from` alone taken for a mapping
IsMappingFromOnly(item) == Truthy(Get(item, "from"))

\* item.from && item.to
IsMapping(item) == Truthy(And(Get(item, "from"), Get(item, "to")))

\* typeField.includes(...) is reached only for a truthy typeField (&& short-
\* circuits) and throws a TypeError when typeField has no includes method
IncludesThrows(tf) == Truthy(tf) /\ ~HasIncludes(tf)

\* variant: no else branch, whatever is left goes to the scheme validator
BranchNoElse(item) ==
  IF GetThrows(item) THEN "TypeError"
  ELSE LET tf == TypeFieldOf(item) IN
    IF IsMapping(item) THEN "mapping"
    ELSE IF IncludesThrows(tf) THEN "TypeError"
    ELSE IF Truthy(tf) /\ Includes(tf, SkosConcept) THEN "concept"
    ELSE "scheme"

\* variant: the concept test moved in front of the mapping test
BranchConceptFirst(item) ==
  IF GetThrows(item) THEN "TypeError"
  ELSE LET tf == TypeFieldOf(item) IN
    IF IncludesThrows(tf) THEN "TypeError"
    ELSE IF Truthy(tf) /\ Includes(tf, SkosConcept) THEN "concept"
    ELSE IF IsMapping(item) THEN "mapping"
    ELSE IF Truthy(tf) /\ Includes(tf, ConceptScheme) THEN "scheme"
    ELSE "skip"

\* the branch of the if/else-if chain a record takes: "mapping", "concept",
\* "scheme", "skip", or "TypeError" when evaluating the callback throws

Branch(item) ==
  IF GetThrows(item) THEN "TypeError"
  ELSE LET tf == TypeFieldOf(item) IN
    IF IsMapping(item) THEN "mapping"
    ELSE IF IncludesThrows(tf) THEN "TypeError"
    ELSE IF Truthy(tf) /\ Includes(tf, SkosConcept) THEN "concept"
    ELSE IF Truthy(tf) /\ Includes(tf, ConceptScheme) THEN "scheme"
    ELSE "skip"

Validators == {"mapping", "concept", "scheme"}

(* ------------------------------ the file ------------------------------ *)
\* the lines a file is made of; JSONparse gives what JSON.parse makes of each
LineTexts == {
  "", " ", "{oops",
  "null", "7", "\"skos:Concept\"", "[]", "{}",
  "{\"from\":{},\"to\":{}}",
  "{\"from\":{},\"to\":{},\"type\":\"skos:Concept\"}",
  "{\"from\":{},\"to\":{},\"type\":7}",
  "{\"from\":{},\"to\":false}",
  "{\"from\":{},\"type\":\"skos:Concept\"}",
  "{\"type\":\"skos:Concept\"}",
  "{\"@type\":\"skos:Concept\"}",
  "{\"type\":\"skos:ConceptScheme\"}",
  "{\"type\":\"ConceptScheme\"}",
  "{\"type\":\"http://www.w3.org/2004/02/skos/core#ConceptScheme\"}",
  "{\"type\":\"x\",\"@type\":\"skos:Concept\"}",
  "{\"type\":\"\",\"@type\":\"skos:Concept\"}",
  "{\"type\":[\"skos:Concept\"]}",
  "{\"type\":[\"ConceptScheme\"]}",
  "{\"type\":[\"http://www.w3.org/2004/02/skos/core#ConceptScheme\"]}",
  "{\"type\":7}",
  "{\"type\":{}}" }

EmptyObj == Obj(<<>>)
Parsed(v) == [ok |-> TRUE, val |-> v]

\* JSON.parse(line): the value, or ok = FALSE where it throws a SyntaxError
JSONparse(line) ==
  CASE line = "null" -> Parsed(Null)
    [] line = "7" -> Parsed(Num(7))
    [] line = "\"skos:Concept\"" -> Parsed(Str(SkosConcept))
    [] line = "[]" -> Parsed(Arr(<<>>))
    [] line = "{}" -> Parsed(EmptyObj)
    [] line = "{\"from\":{},\"to\":{}}" ->
         Parsed(Obj(("from" :> EmptyObj) @@ ("to" :> EmptyObj)))
    [] line = "{\"from\":{},\"to\":{},\"type\":\"skos:Concept\"}" ->
         Parsed(Obj(("from" :> EmptyObj) @@ ("to" :> EmptyObj)
                    @@ ("type" :> Str(SkosConcept))))
    [] line = "{\"from\":{},\"to\":{},\"type\":7}" ->
         Parsed(Obj(("from" :> EmptyObj) @@ ("to" :> EmptyObj)
                    @@ ("type" :> Num(7))))
    [] line = "{\"from\":{},\"to\":false}" ->
         Parsed(Obj(("from" :> EmptyObj) @@ ("to" :> Bool(FALSE))))
    [] line = "{\"from\":{},\"type\":\"skos:Concept\"}" ->
         Parsed(Obj(("from" :> EmptyObj) @@ ("type" :> Str(SkosConcept))))
    [] line = "{\"type\":\"skos:Concept\"}" ->
         Parsed(Obj("type" :> Str(SkosConcept)))
    [] line = "{\"@type\":\"skos:Concept\"}" ->
         Parsed(Obj("@type" :> Str(SkosConcept)))
    [] line = "{\"type\":\"skos:ConceptScheme\"}" ->
         Parsed(Obj("type" :> Str(SkosConceptScheme)))
    [] line = "{\"type\":\"ConceptScheme\"}" ->
         Parsed(Obj("type" :> Str(ConceptScheme)))
    [] line = "{\"type\":\"http://www.w3.org/2004/02/skos/core#ConceptScheme\"}" ->
         Parsed(Obj("type" :> Str(UriConceptScheme)))
    [] line = "{\"type\":\"x\",\"@type\":\"skos:Concept\"}" ->
         Parsed(Obj(("type" :> Str(<<"x">>)) @@ ("@type" :> Str(SkosConcept))))
    [] line = "{\"type\":\"\",\"@type\":\"skos:Concept\"}" ->
         Parsed(Obj(("type" :> Str(<<>>)) @@ ("@type" :> Str(SkosConcept))))
    [] line = "{\"type\":[\"skos:Concept\"]}" ->
         Parsed(Obj("type" :> Arr(<<Str(SkosConcept)>>)))
    [] line = "{\"type\":[\"ConceptScheme\"]}" ->
         Parsed(Obj("type" :> Arr(<<Str(ConceptScheme)>>)))
    [] line = "{\"type\":[\"http://www.w3.org/2004/02/skos/core#ConceptScheme\"]}" ->
         Parsed(Obj("type" :> Arr(<<Str(UriConceptScheme)>>)))
    [] line = "{\"type\":7}" -> Parsed(Obj("type" :> Num(7)))
    [] line = "{\"type\":{}}" -> Parsed(Obj("type" :> EmptyObj))
    [] OTHER -> [ok |-> FALSE, val |-> Undefined]

\* a file is the sequence of lines its text splits into at line breaks; the
\* empty text splits into one empty line
Files == UNION {[1..n -> LineTexts] : n \in 1..MaxLines}

\* a line made of white space only
IsBlank(line) == line \in {"", " "}

\* text.trim(): white space, line breaks included, goes from both ends
RECURSIVE TrimStart(_)
TrimStart(text) ==
  IF Len(text) > 0 /\ IsBlank(Head(text)) THEN TrimStart(Tail(text)) ELSE text

RECURSIVE TrimEnd(_)
TrimEnd(text) ==
  IF Len(text) > 0 /\ IsBlank(text[Len(text)])
  THEN TrimEnd(SubSeq(text, 1, Len(text) - 1)) ELSE text

\* variant: .trim() left out
TrimLeftOut(text) == text

Trim(text) == TrimEnd(TrimStart(text))

\* .split(/\r?\n/): the lines of the text, one empty line for the empty text
Split(text) == IF text = <<>> THEN <<"">> ELSE text

\* .filter(Boolean): the empty string is the only falsy string
NonEmpty(line) == line # ""

\* variant: .filter(Boolean) left out
FilterLeftOut(ls) == ls

FilterBoolean(ls) == SelectSeq(ls, NonEmpty)

\* fs.readFileSync(...).trim().split(/\r?\n/).filter(Boolean)
LinesOf(text) == FilterBoolean(Split(Trim(text)))

\* variant: a line that does not parse is let through as undefined
ParseThrowsNever(ls) == FALSE

\* lines.map(line => JSON.parse(line)) throws at the first line that fails
ParseThrows(ls) == \E i \in 1..Len(ls) : ~JSONparse(ls[i]).ok
ParseAll(ls) == [i \in 1..Len(ls) |-> JSONparse(ls[i]).val]

(* --------------------------- command line ----------------------------- *)
DefaultPath == "jskos-mappings.ndjson"

\* the arguments after the script name: none, an empty one, a file name
ArgLists == {<<>>, <<"">>, <<"other.ndjson">>}

\* variant: the argument is ignored
FilePathFixed(a) == DefaultPath

\* process.argv[2] || "jskos-mappings.ndjson": a missing argument is
\* undefined and an empty one is the empty string, both falsy
FilePathOf(a) == IF Len(a) >= 1 /\ a[1] # "" THEN a[1] ELSE DefaultPath

(* ------------------------- jskos-validate ----------------------------- *)
\* the error messages a call of validator v on record i may leave in
\* validate[v].errorMessages: none when it accepts, any number when it rejects
Msg(v, i, k) == [by |-> v, of |-> i, n |-> k]
MsgSeqs(v, i, ok) ==
  IF ok THEN {<<>>}
  ELSE {[k \in 1..m |-> Msg(v, i, k)] : m \in 0..MaxMsgs}

(* ---------------- manual_metadata.jsonld: the @context --------------- *)
\* the controlled lists of the JSON-LD context, each the @graph array of its
\* term, in the order of the file
\* variant: the list as it stood before 4.6, without Award and Project
resourceTypeGeneralList45 ==
  <<"Audiovisual", "Book", "BookChapter", "Collection",
    "ComputationalNotebook", "ConferencePaper", "ConferenceProceeding",
    "DataPaper", "Dataset", "Dissertation", "Event", "Image",
    "InteractiveResource", "Instrument", "Journal", "JournalArticle",
    "Model", "OutputManagementPlan", "PeerReview", "PhysicalObject",
    "Preprint", "Report", "Service", "Software", "Sound", "Standard",
    "StudyRegistration", "Text", "Workflow", "Other">>

resourceTypeGeneralList ==
  <<"Audiovisual", "Award", "Book", "BookChapter", "Collection",
    "ComputationalNotebook", "ConferencePaper", "ConferenceProceeding",
    "DataPaper", "Dataset", "Dissertation", "Event", "Image",
    "InteractiveResource", "Instrument", "Journal", "JournalArticle",
    "Model", "OutputManagementPlan", "PeerReview", "PhysicalObject",
    "Preprint", "Project", "Report", "Service", "Software", "Sound",
    "Standard", "StudyRegistration", "Text", "Workflow", "Other">>

\* variant: the list as it stood before 4.6, without Translator
contributorTypeList45 ==
  <<"ContactPerson", "DataCollector", "DataCurator", "DataManager",
    "Distributor", "Editor", "HostingInstitution", "Other", "Producer",
    "ProjectLeader", "ProjectManager", "ProjectMember",
    "RegistrationAgency", "RegistrationAuthority", "RelatedPerson",
    "ResearchGroup", "RightsHolder", "Researcher", "Sponsor", "Supervisor",
    "WorkPackageLeader">>

contributorTypeList ==
  <<"ContactPerson", "DataCollector", "DataCurator", "DataManager",
    "Distributor", "Editor", "HostingInstitution", "Other", "Producer",
    "ProjectLeader", "ProjectManager", "ProjectMember",
    "RegistrationAgency", "RegistrationAuthority", "RelatedPerson",
    "ResearchGroup", "RightsHolder", "Researcher", "Sponsor", "Supervisor",
    "Translator", "WorkPackageLeader">>

dateTypeList ==
  <<"Accepted", "Available", "Collected", "Copyrighted", "Coverage",
    "Created", "Issued", "Other", "Submitted", "Updated", "Valid",
    "Withdrawn">>

descriptionTypeList ==
  <<"Abstract", "Methods", "SeriesInformation", "TableOfContents",
    "TechnicalInfo", "Other">>

funderIdentifierTypeList ==
  <<"ISNI", "GRID", "ROR", "Crossref Funder ID", "Other">>

nameTypeList ==
  <<"Organizational", "Personal">>

numberTypeList ==
  <<"Article", "Chapter", "Report", "Other">>

relatedIdentifierTypeList ==
  <<"ARK", "arXiv", "bibcode", "CSTR", "DOI", "EAN13", "EISSN", "Handle",
    "IGSN", "ISBN", "ISSN", "ISTC", "LISSN", "LSID", "PMID", "PURL",
    "RRID", "UPC", "URL", "URN", "w3id">>

relationTypeList ==
  <<"IsCitedBy", "Cites", "IsSupplementTo", "IsSupplementedBy",
    "IsContinuedBy", "Continues", "IsNewVersionOf", "IsPreviousVersionOf",
    "IsPartOf", "HasPart", "IsPublishedIn", "IsReferencedBy", "References",
    "IsDocumentedBy", "Documents", "IsCompiledBy", "Compiles",
    "IsVariantFormOf", "IsOriginalFormOf", "IsIdenticalTo", "HasMetadata",
    "IsMetadataFor", "Reviews", "IsReviewedBy", "IsDerivedFrom",
    "IsSourceOf", "Describes", "IsDescribedBy", "HasVersion",
    "IsVersionOf", "Requires", "IsRequiredBy", "Obsoletes",
    "IsObsoletedBy", "Collects", "IsCollectedBy", "HasTranslation",
    "IsTranslationOf">>

\* variant: the list without Other
titleTypeListNoOther ==
  <<"AlternativeTitle", "Subtitle", "TranslatedTitle">>

titleTypeList ==
  <<"AlternativeTitle", "Subtitle", "TranslatedTitle", "Other">>

ListNames == {"resourceTypeGeneralList",
              "contributorTypeList",
              "dateTypeList",
              "descriptionTypeList",
              "funderIdentifierTypeList",
              "nameTypeList",
              "numberTypeList",
              "relatedIdentifierTypeList",
              "relationTypeList",
              "titleTypeList"}

\* the list a term of the context names
ContextList(name) ==
  CASE name = "resourceTypeGeneralList" -> resourceTypeGeneralList
    [] name = "contributorTypeList" -> contributorTypeList
    [] name = "dateTypeList" -> dateTypeList
    [] name = "descriptionTypeList" -> descriptionTypeList
    [] name = "funderIdentifierTypeList" -> funderIdentifierTypeList
    [] name = "nameTypeList" -> nameTypeList
    [] name = "numberTypeList" -> numberTypeList
    [] name = "relatedIdentifierTypeList" -> relatedIdentifierTypeList
    [] name = "relationTypeList" -> relationTypeList
    [] name = "titleTypeList" -> titleTypeList

\* the values of a list
Range(seq) == {seq[i] : i \in DOMAIN seq}

\* whether a controlled list holds a value
InList(name, term) == term \in Range(ContextList(name))

\* how many values a controlled list holds
CountOf(name) == Len(ContextList(name))

(* ------------- manual_metadata.jsonld: the JSON Schema ---------------- *)
\* the schema document, keyword by keyword; titles and descriptions, which
\* constrain nothing, are left out
creatorsItems ==
  [ type |-> "object",
    properties |->
      ("creatorName" :> [type |-> "string"])
      @@ ("nameType" :> [type |-> "string", enum |-> {"Personal", "Organizational"}])
      @@ ("givenName" :> [type |-> "string"])
      @@ ("familyName" :> [type |-> "string"])
      @@ ("nameIdentifier" :> [type |-> "array", items |-> [type |-> "string", format |-> "uri"]])
      @@ ("affiliation" :> [type |-> "array", items |-> [type |-> "string"]]),
    required |-> {"creatorName"},
    additionalProperties |-> FALSE ]

creatorsSchema ==
  [type |-> "array", minItems |-> 1, items |-> creatorsItems]

titlesItems ==
  [ type |-> "object",
    properties |->
      ("title" :> [type |-> "string"])
      @@ ("titleType" :> [ type |-> "string",
          enum |-> {"AlternativeTitle", "Subtitle", "TranslatedTitle", "Other"} ])
      @@ ("lang" :> [type |-> "string"]),
    required |-> {"title"},
    additionalProperties |-> FALSE ]

titlesSchema ==
  [type |-> "array", minItems |-> 1, items |-> titlesItems]

publisherSchema ==
  [ type |-> "object",
    properties |->
      ("name" :> [type |-> "string"])
      @@ ("publisherIdentifier" :> [type |-> "string"])
      @@ ("publisherIdentifierScheme" :> [type |-> "string"])
      @@ ("schemeURI" :> [type |-> "string", format |-> "uri"])
      @@ ("lang" :> [type |-> "string"]),
    required |-> {"name"},
    additionalProperties |-> FALSE ]

resourceTypeGeneralSchema ==
  [ type |-> "string",
    enum |->
    {"Audiovisual", "Award", "Book", "BookChapter",
     "Collection", "ComputationalNotebook", "ConferencePaper",
     "ConferenceProceeding", "DataPaper", "Dataset",
     "Dissertation", "Event", "Image", "InteractiveResource",
     "Instrument", "Journal", "JournalArticle", "Model",
     "OutputManagementPlan", "PeerReview", "PhysicalObject",
     "Preprint", "Project", "Report", "Service", "Software",
     "Sound", "Standard", "StudyRegistration", "Text",
     "Workflow", "Other"} ]

\* variant: the subject required under the name `subject`, which the object
\* does not declare
subjectsItemsRequiresSubject ==
  [ type |-> "object",
    properties |->
      ("value" :> [type |-> "string"])
      @@ ("subjectScheme" :> [type |-> "string"])
      @@ ("schemeURI" :> [type |-> "string", format |-> "uri"])
      @@ ("valueURI" :> [type |-> "string", format |-> "uri"])
      @@ ("classificationCode" :> [type |-> "string", format |-> "uri"])
      @@ ("lang" :> [type |-> "string"]),
    required |-> {"subject"},
    additionalProperties |-> FALSE ]

subjectsItems ==
  [ type |-> "object",
    properties |->
      ("value" :> [type |-> "string"])
      @@ ("subjectScheme" :> [type |-> "string"])
      @@ ("schemeURI" :> [type |-> "string", format |-> "uri"])
      @@ ("valueURI" :> [type |-> "string", format |-> "uri"])
      @@ ("classificationCode" :> [type |-> "string", format |-> "uri"])
      @@ ("lang" :> [type |-> "string"]),
    required |-> {"value"},
    additionalProperties |-> FALSE ]

subjectsSchema ==
  [type |-> "array", items |-> subjectsItems]

contributorsItems ==
  [ type |-> "object",
    properties |->
      ("contributorName" :> [type |-> "string"])
      @@ ("nameType" :> [type |-> "string", enum |-> {"Personal", "Organizational"}])
      @@ ("givenName" :> [type |-> "string"])
      @@ ("familyName" :> [type |-> "string"])
      @@ ("nameIdentifier" :> [type |-> "array", items |-> [type |-> "string", format |-> "uri"]])
      @@ ("affiliation" :> [type |-> "array", items |-> [type |-> "string"]])
      @@ ("contributorType" :> [type |-> "string"]),
    required |-> {"contributorName", "contributorType"},
    additionalProperties |-> FALSE ]

contributorsSchema ==
  [type |-> "array", items |-> contributorsItems]

\* variant: a date object open to further properties
datesItemsOpen ==
  [ type |-> "object",
    properties |->
      ("date" :> [type |-> "string"])
      @@ ("dateType" :> [type |-> "string"])
      @@ ("dateInformation" :> [type |-> "string"]),
    required |-> {"date", "dateType"} ]

datesItems ==
  [ type |-> "object",
    properties |->
      ("date" :> [type |-> "string"])
      @@ ("dateType" :> [type |-> "string"])
      @@ ("dateInformation" :> [type |-> "string"]),
    required |-> {"date", "dateType"},
    additionalProperties |-> FALSE ]

datesSchema ==
  [type |-> "array", items |-> datesItems]

alternateIdentifiersItems ==
  [ type |-> "object",
    properties |->
      ("value" :> [type |-> "string"])
      @@ ("alternateIdentifierType" :> [type |-> "string"]),
    required |-> {"value", "alternateIdentifierType"},
    additionalProperties |-> FALSE ]

alternateIdentifiersSchema ==
  [type |-> "array", items |-> alternateIdentifiersItems]

relatedIdentifiersItems ==
  [ type |-> "object",
    properties |->
      ("value" :> [type |-> "string"])
      @@ ("resourceTypeGeneral" :> [type |-> "string"])
      @@ ("relatedIdentifierType" :> [type |-> "string"])
      @@ ("relationType" :> [type |-> "string"])
      @@ ("relatedMetadataScheme" :> [type |-> "string"])
      @@ ("schemeURI" :> [type |-> "string", format |-> "uri"])
      @@ ("schemeType" :> [type |-> "string"]),
    required |-> {"value", "relatedIdentifierType", "relationType"},
    additionalProperties |-> FALSE ]

relatedIdentifiersSchema ==
  [type |-> "array", items |-> relatedIdentifiersItems]

\* variant: creators and titles left out of the required properties
RootRequiredLax ==
  {"identifier", "identifierType", "publisher", "publicationYear",
   "resourceType", "resourceTypeGeneral"}

RootRequired ==
  {"identifier", "identifierType", "creators", "titles", "publisher",
   "publicationYear", "resourceType", "resourceTypeGeneral"}

RootSchema ==
  [ type |-> "object",
    properties |->
      ("identifier" :> [type |-> "string", format |-> "uri"])
      @@ ("identifierType" :> [type |-> "string"])
      @@ ("creators" :> creatorsSchema)
      @@ ("titles" :> titlesSchema)
      @@ ("publisher" :> publisherSchema)
      @@ ("publicationYear" :> [type |-> "string", pattern |-> "^[0-9]{4}$"])
      @@ ("resourceType" :> [type |-> "string"])
      @@ ("resourceTypeGeneral" :> resourceTypeGeneralSchema)
      @@ ("subjects" :> subjectsSchema)
      @@ ("contributors" :> contributorsSchema)
      @@ ("dates" :> datesSchema)
      @@ ("language" :> [type |-> "string"])
      @@ ("alternateIdentifiers" :> alternateIdentifiersSchema)
      @@ ("relatedIdentifiers" :> relatedIdentifiersSchema)
      @@ ("sizes" :> [type |-> "array", items |-> [type |-> "string"]])
      @@ ("formats" :> [type |-> "array", items |-> [type |-> "string"]])
      @@ ("version" :> [type |-> "string"]),
    required |-> RootRequired,
    additionalProperties |-> FALSE ]

\* a JSON string of one token
Text(s) == Str(<<s>>)

\* the JSON type of a value
TypeIs(ty, v) ==
  CASE ty = "string" -> v.t = "string"
    [] ty = "array" -> v.t = "array"
    [] ty = "object" -> v.t = "object"
    [] OTHER -> FALSE

Digits == {"0", "1", "2", "3", "4", "5", "6", "7", "8", "9"}

\* the one pattern of the schema, ^[0-9]{4}$, on a string of characters
Matches(p, str) ==
  p = "^[0-9]{4}$" /\ Len(str) = 4 /\ \A i \in 1..4 : str[i] \in Digits

\* format uri: the string starts with a scheme
FormatOK(f, str) ==
  f = "uri" /\ Len(str) >= 1 /\ str[1] \in {"https://", "http://", "doi:"}

\* draft-07 validation of value v against schema s; a validator may or may
\* not assert formats
RECURSIVE Valid(_, _, _)
Valid(s, v, fmt) ==
  /\ ("type" \in DOMAIN s) => TypeIs(s.type, v)
  /\ ("enum" \in DOMAIN s) => \E e \in s.enum : v = Text(e)
  /\ ("format" \in DOMAIN s /\ fmt /\ v.t = "string") => FormatOK(s.format, v.s)
  /\ ("pattern" \in DOMAIN s /\ v.t = "string") => Matches(s.pattern, v.s)
  /\ ("minItems" \in DOMAIN s /\ v.t = "array") => Len(v.a) >= s.minItems
  /\ ("items" \in DOMAIN s /\ v.t = "array")
       => \A i \in 1..Len(v.a) : Valid(s.items, v.a[i], fmt)
  /\ ("required" \in DOMAIN s /\ v.t = "object") => s.required \subseteq DOMAIN v.f
  /\ ("properties" \in DOMAIN s /\ v.t = "object")
       => \A p \in DOMAIN v.f \cap DOMAIN s.properties :
            Valid(s.properties[p], v.f[p], fmt)
  /\ ("additionalProperties" \in DOMAIN s /\ v.t = "object")
       => (s.additionalProperties \/ DOMAIN v.f \subseteq DOMAIN s.properties)

(* ------------------------- candidate records -------------------------- *)
\* most entries an array of a candidate record holds
MaxEntries == 2

\* sequences of at most n elements of S
SeqsUpTo(S, n) == UNION {[1..k -> S] : k \in 0..n}

Extra == "undeclared" :> Text("x")

GoodCreator == Obj("creatorName" :> Text("Doe, Jane"))
GoodTitle == Obj("title" :> Text("A title"))

\* creators / titles: left out, or an array of up to MaxEntries entries, each
\* as the schema wants it or with a property the schema does not declare
Left == [t |-> "undefined"]
CreatorsChoices ==
  {Left} \cup {Arr(a) : a \in SeqsUpTo({GoodCreator, Obj(GoodCreator.f @@ Extra)},
                                      MaxEntries)}
TitlesChoices ==
  {Left} \cup {Arr(a) : a \in SeqsUpTo({GoodTitle, Obj(GoodTitle.f @@ Extra)},
                                      MaxEntries)}

\* the other required properties, as the schema wants them
GoodRest ==
  ("identifier" :> Str(<<"https://", "doi.org/10.1234/example">>))
  @@ ("identifierType" :> Text("DOI"))
  @@ ("publisher" :> Obj("name" :> Text("A publisher")))
  @@ ("publicationYear" :> Str(<<"2", "0", "2", "4">>))
  @@ ("resourceType" :> Text("Dataset"))
  @@ ("resourceTypeGeneral" :> Text("Dataset"))

GoodSubject == "value" :> Text("physics")
GoodContributor ==
  ("contributorName" :> Text("Roe, R")) @@ ("contributorType" :> Text("Editor"))
GoodDate == ("date" :> Text("2024-01-01")) @@ ("dateType" :> Text("Issued"))
GoodAlternate ==
  ("value" :> Text("abc")) @@ ("alternateIdentifierType" :> Text("local"))
GoodRelated ==
  ("value" :> Text("10.1234/other")) @@ ("relatedIdentifierType" :> Text("DOI"))
  @@ ("relationType" :> Text("Cites"))

\* what else a candidate record holds: nothing, a well-formed optional
\* property, or one thing the schema does not allow
Variations ==
  { "none", "subjects", "contributors", "dates", "alternateIdentifiers",
    "relatedIdentifiers", "topExtra", "publisherExtra", "subjectExtra",
    "contributorExtra", "dateExtra", "alternateIdentifierExtra",
    "relatedIdentifierExtra", "badYear", "badGeneralType", "badIdentifier" }

Variation(w) ==
  CASE w = "none" -> <<>>
    [] w = "subjects" -> "subjects" :> Arr(<<Obj(GoodSubject)>>)
    [] w = "contributors" -> "contributors" :> Arr(<<Obj(GoodContributor)>>)
    [] w = "dates" -> "dates" :> Arr(<<Obj(GoodDate)>>)
    [] w = "alternateIdentifiers" ->
         "alternateIdentifiers" :> Arr(<<Obj(GoodAlternate)>>)
    [] w = "relatedIdentifiers" ->
         "relatedIdentifiers" :> Arr(<<Obj(GoodRelated)>>)
    [] w = "topExtra" -> Extra
    [] w = "publisherExtra" ->
         "publisher" :> Obj(("name" :> Text("A publisher")) @@ Extra)
    [] w = "subjectExtra" -> "subjects" :> Arr(<<Obj(GoodSubject @@ Extra)>>)
    [] w = "contributorExtra" ->
         "contributors" :> Arr(<<Obj(GoodContributor @@ Extra)>>)
    [] w = "dateExtra" -> "dates" :> Arr(<<Obj(GoodDate @@ Extra)>>)
    [] w = "alternateIdentifierExtra" ->
         "alternateIdentifiers" :> Arr(<<Obj(GoodAlternate @@ Extra)>>)
    [] w = "relatedIdentifierExtra" ->
         "relatedIdentifiers" :> Arr(<<Obj(GoodRelated @@ Extra)>>)
    [] w = "badYear" -> "publicationYear" :> Str(<<"2", "4">>)
    [] w = "badGeneralType" -> "resourceTypeGeneral" :> Text("Bogus")
    [] w = "badIdentifier" -> "identifier" :> Text("10.1234/example")

\* a property that may be left out
Maybe(name, v) == IF v = Left THEN <<>> ELSE name :> v

Record(creators, titles, w) ==
  Obj(Maybe("creators", creators) @@ Maybe("titles", titles)
      @@ Variation(w) @@ GoodRest)

Records ==
  {Record(c, ti, w) : c \in CreatorsChoices, ti \in TitlesChoices,
                      w \in Variations}

(* ------------------------------ state --------------------------------- *)
VARIABLES
  args,           \* process.argv from index 2 on
  pc,             \* "start", "parse", "loop", "done" or "aborted"
  filePath,       \* const filePath
  text,           \* what fs.readFileSync returned
  lines,          \* const lines
  items,          \* const items
  idx,            \* index of the next record items.forEach visits
  countValid,     \* let countValid
  countInvalid,   \* let countInvalid
  errorMessages,  \* validate.mapping/concept/scheme.errorMessages
  trace,          \* what the run has done so far, in order: files read,
                  \* validator calls and returns, console lines, exceptions
  query,          \* a question put to the bundled data of manual_metadata.jsonld
  answer          \* what the data answers

vars == <<args, pc, filePath, text, lines, items, idx, countValid, countInvalid,
          errorMessages, trace, query, answer>>

\* no question asked, no answer given
NoQuery == [kind |-> "none"]
Pending == [done |-> FALSE]

Init ==
  /\ args \in ArgLists
  /\ pc = "start"
  /\ filePath = ""
  /\ text = <<>>
  /\ lines = <<>>
  /\ items = <<>>
  /\ idx = 0
  /\ countValid = 0
  /\ countInvalid = 0
  /\ errorMessages = [v \in Validators |-> <<>>]
  /\ trace = <<>>
  /\ query = NoQuery
  /\ answer = Pending

(* ------------------------------ events -------------------------------- *)
ReadEv(path) == [ev |-> "read", path |-> path]
ThrowEv(err) == [ev |-> "throw", err |-> err]
CallEv(v, i) == [ev |-> "call", v |-> v, idx |-> i]
\* a return carries the verdict and the errorMessages the call left behind
ReturnEv(v, i, ok, left) ==
  [ev |-> "return", v |-> v, idx |-> i, ok |-> ok, left |-> left]
\* console.log(`... [${typeField}] Item ${idx} valid.`)
ValidEv(tf, i) == [ev |-> "valid", tf |-> tf, idx |-> i]
\* console.log(`... [${typeField}] Item ${idx} INVALID:`)
InvalidEv(tf, i) == [ev |-> "INVALID", tf |-> tf, idx |-> i]
\* console.log("  -", e)
ErrorEv(e) == [ev |-> "error", msg |-> e]
\* console.warn(`... Skipping unknown item ${idx}`)
SkipEv(i) == [ev |-> "skip", idx |-> i]
\* console.log(`... Summary: ${countValid} valid, ${countInvalid} invalid.`)
SummaryEv(nv, ni) == [ev |-> "summary", valid |-> nv, invalid |-> ni]

(* ------------------------------ actions ------------------------------- *)
\* lines 6-10: choose the path, read the file, trim, split, drop empty lines;
\* F is what the file may hold
ReadFrom(F) ==
  /\ pc = "start"
  /\ filePath' = FilePathOf(args)
  /\ \/ \E t \in F :
          /\ text' = t
          /\ lines' = LinesOf(t)
          /\ trace' = Append(trace, ReadEv(filePath'))
          /\ pc' = "parse"
     \/ \* readFileSync throws: no such file
        /\ UNCHANGED <<text, lines>>
        /\ trace' = trace \o <<ReadEv(filePath'), ThrowEv("ENOENT")>>
        /\ pc' = "aborted"
  /\ UNCHANGED <<query, answer>>
  /\ UNCHANGED <<args, items, idx, countValid, countInvalid, errorMessages>>

ReadFile == ReadFrom(Files)

\* line 11: parse every line, or die at the first that is not JSON
ParseLines ==
  /\ pc = "parse"
  /\ IF ParseThrows(lines)
     THEN /\ trace' = Append(trace, ThrowEv("SyntaxError"))
          /\ pc' = "aborted"
          /\ items' = items
     ELSE /\ items' = ParseAll(lines)
          /\ pc' = "loop"
          /\ trace' = trace
  /\ UNCHANGED <<query, answer>>
  /\ UNCHANGED <<args, filePath, text, lines, idx, countValid, countInvalid,
                 errorMessages>>

\* variant: every branch reads validate.mapping.errorMessages
ErrorsReadMapping(em, v) == em["mapping"]

\* errors = validate.<v>.errorMessages, read right after the call of <v>
ErrorsRead(em, v) == em[v]

\* variant: a valid record prints nothing
ReportInvalidOnly(ok, tf, i, errors) ==
  IF ok THEN <<>>
  ELSE <<InvalidEv(tf, i)>> \o [k \in 1..Len(errors) |-> ErrorEv(errors[k])]

\* the console lines of lines 36-43
Report(ok, tf, i, errors) ==
  IF ok THEN <<ValidEv(tf, i)>>
  ELSE <<InvalidEv(tf, i)>> \o [k \in 1..Len(errors) |-> ErrorEv(errors[k])]

\* variant: countValid++ outside the if
CountValidAlways(c, ok) == c + 1

\* lines 36-43: countValid++ for a record found valid, countInvalid++ else
CountValidAfter(c, ok) == IF ok THEN c + 1 ELSE c

\* variant: countInvalid++ left out
CountInvalidNever(c, ok) == c

\* variant: countInvalid++ outside the else
CountInvalidAlways(c, ok) == c + 1

CountInvalidAfter(c, ok) == IF ok THEN c ELSE c + 1

\* lines 15-44, a record that takes one of the three validator branches
ValidateItem ==
  /\ pc = "loop"
  /\ idx < Len(items)
  /\ LET item == items[idx + 1]
         v == Branch(item)
     IN /\ v \in Validators
        /\ \E ok \in BOOLEAN : \E left \in MsgSeqs(v, idx, ok) :
             /\ errorMessages' = [errorMessages EXCEPT ![v] = left]
             /\ trace' = trace \o <<CallEv(v, idx), ReturnEv(v, idx, ok, left)>>
                   \o Report(ok, TypeFieldOf(item), idx,
                             ErrorsRead(errorMessages', v))
             /\ countValid' = CountValidAfter(countValid, ok)
             /\ countInvalid' = CountInvalidAfter(countInvalid, ok)
  /\ idx' = idx + 1
  /\ UNCHANGED <<query, answer>>
  /\ UNCHANGED <<args, pc, filePath, text, lines, items>>

\* lines 31-34: the else branch warns and returns
SkipItem ==
  /\ pc = "loop"
  /\ idx < Len(items)
  /\ Branch(items[idx + 1]) = "skip"
  /\ trace' = Append(trace, SkipEv(idx))
  /\ idx' = idx + 1
  /\ UNCHANGED <<query, answer>>
  /\ UNCHANGED <<args, pc, filePath, text, lines, items, countValid,
                 countInvalid, errorMessages>>

\* lines 16 and 23: a TypeError in the callback is caught by nothing
ThrowItem ==
  /\ pc = "loop"
  /\ idx < Len(items)
  /\ Branch(items[idx + 1]) = "TypeError"
  /\ trace' = Append(trace, ThrowEv("TypeError"))
  /\ pc' = "aborted"
  /\ UNCHANGED <<query, answer>>
  /\ UNCHANGED <<args, filePath, text, lines, items, idx, countValid,
                 countInvalid, errorMessages>>

\* line 46, after forEach has visited every record
Summary ==
  /\ pc = "loop"
  /\ idx = Len(items)
  /\ trace' = Append(trace, SummaryEv(countValid, countInvalid))
  /\ pc' = "done"
  /\ UNCHANGED <<query, answer>>
  /\ UNCHANGED <<args, filePath, text, lines, items, idx, countValid,
                 countInvalid, errorMessages>>

Next ==
  \/ ReadFile
  \/ ParseLines
  \/ ValidateItem
  \/ SkipItem
  \/ ThrowItem
  \/ Summary

Spec == Init /\ [][Next]_vars

(* -------------------- files with lines left empty --------------------- *)
\* most lines of a file that has empty lines between its records
MaxSparseLines == 3

\* an empty line, a line of white space, and records that take the mapping
\* branch, the concept branch, the else branch, and that throw
SparseLineTexts ==
  { "", " ", "null", "{}",
    "{\"from\":{},\"to\":{}}",
    "{\"type\":\"skos:Concept\"}" }

SparseFiles == UNION {[1..n -> SparseLineTexts] : n \in 1..MaxSparseLines}

ReadSparseFile == ReadFrom(SparseFiles)

SparseNext ==
  \/ ReadSparseFile
  \/ ParseLines
  \/ ValidateItem
  \/ SkipItem
  \/ ThrowItem
  \/ Summary

SparseSpec == Init /\ [][SparseNext]_vars

(* ----------------- questions put to manual_metadata.jsonld ------------- *)
\* the validation script at rest
ScriptIdle ==
  /\ args = <<>>
  /\ pc = "start"
  /\ filePath = ""
  /\ text = <<>>
  /\ lines = <<>>
  /\ items = <<>>
  /\ idx = 0
  /\ countValid = 0
  /\ countInvalid = 0
  /\ errorMessages = [v \in Validators |-> <<>>]
  /\ trace = <<>>

scriptVars == <<args, pc, filePath, text, lines, items, idx, countValid,
                countInvalid, errorMessages, trace>>

\* what the README lists as new in DataCite 4.6, by the list it belongs to
Added46 ==
  { <<"resourceTypeGeneralList", "Project">>,
    <<"resourceTypeGeneralList", "Award">>,
    <<"relatedIdentifierTypeList", "RRID">>,
    <<"relatedIdentifierTypeList", "CSTR">>,
    <<"contributorTypeList", "Translator">>,
    <<"relationTypeList", "IsTranslationOf">>,
    <<"relationTypeList", "HasTranslation">>,
    <<"dateTypeList", "Coverage">> }

\* every value of every list, every value the README names, and one that is
\* in no list
Terms ==
  UNION {Range(ContextList(n)) : n \in ListNames}
    \cup {p[2] : p \in Added46} \cup {"Bogus"}

TermQuery(n, t) == [kind |-> "term", list |-> n, term |-> t]
CountQuery(n) == [kind |-> "count", list |-> n]

\* is the value in the list?
LookupTerm ==
  /\ query.kind = "term"
  /\ ~answer.done
  /\ answer' = [done |-> TRUE, found |-> InList(query.list, query.term)]
  /\ UNCHANGED query
  /\ UNCHANGED scriptVars

\* how many values has the list?
CountList ==
  /\ query.kind = "count"
  /\ ~answer.done
  /\ answer' = [done |-> TRUE, count |-> CountOf(query.list)]
  /\ UNCHANGED query
  /\ UNCHANGED scriptVars

RecordQuery(r, fmt) == [kind |-> "record", doc |-> r, formats |-> fmt]

\* is the record valid against the bundled JSON Schema?
ValidateRecord ==
  /\ query.kind = "record"
  /\ ~answer.done
  /\ answer' = [done |-> TRUE,
                valid |-> Valid(RootSchema, query.doc, query.formats)]
  /\ UNCHANGED query
  /\ UNCHANGED scriptVars

DataInit ==
  /\ ScriptIdle
  /\ query \in {TermQuery(n, t) : n \in ListNames, t \in Terms}
              \cup {CountQuery(n) : n \in ListNames}
              \cup {RecordQuery(r, fmt) : r \in Records, fmt \in BOOLEAN}
  /\ answer = Pending

DataNext ==
  \/ LookupTerm
  \/ CountList
  \/ ValidateRecord

DataSpec == DataInit /\ [][DataNext]_vars

(* ------------------------ reading the trace --------------------------- *)
\* positions of the trace holding an event of one of the kinds
At(kinds) == {k \in DOMAIN trace : trace[k].ev \in kinds}

OutcomeKinds == {"valid", "INVALID", "skip"}

\* the records forEach has finished with
Processed == 0..(idx - 1)

\* what became of record i: the validators it was passed to, and "skip" if
\* the warning was printed for it
Dispatched(i) ==
  {trace[k].v : k \in {c \in At({"call"}) : trace[c].idx = i}}
    \cup {"skip" : k \in {w \in At({"skip"}) : trace[w].idx = i}}

\* `from` and `to` both truthy, read off the record itself
HasFromAndTo(item) == Truthy(Get(item, "from")) /\ Truthy(Get(item, "to"))

(* ------------------------------ claims -------------------------------- *)
\* C1: the summary reports as valid the number of validator calls that
\* returned true and as invalid the number that returned false.
C1_SummaryCounts ==
  \A k \in At({"summary"}) :
    /\ trace[k].valid = Cardinality({r \in At({"return"}) : trace[r].ok})
    /\ trace[k].invalid = Cardinality({r \in At({"return"}) : ~trace[r].ok})

\* a finished run with one record accepted and one rejected
C1_Witness ==
  \E k \in At({"summary"}) : trace[k].valid = 1 /\ trace[k].invalid = 1

\* C2, as claimed: two records with equal `type` and equal `@type` go the same
\* way, whatever `from` and `to` hold.
C2_TypeAloneDecides ==
  \A i, j \in Processed :
    (/\ items[i + 1].t = "object" /\ items[j + 1].t = "object"
     /\ Get(items[i + 1], "type") = Get(items[j + 1], "type")
     /\ Get(items[i + 1], "@type") = Get(items[j + 1], "@type"))
    => Dispatched(i) = Dispatched(j)

\* C2, amended: two records with equal `type`, equal `@type` and the same
\* truth value of `from && to` go the same way.
C2_TypeAndFromToDecide ==
  \A i, j \in Processed :
    (/\ Get(items[i + 1], "type") = Get(items[j + 1], "type")
     /\ Get(items[i + 1], "@type") = Get(items[j + 1], "@type")
     /\ HasFromAndTo(items[i + 1]) = HasFromAndTo(items[j + 1]))
    => Dispatched(i) = Dispatched(j)

\* two processed records with the same type fields, one with `from` only and
\* one with neither, both sent to the concept validator
C2_Witness ==
  /\ idx = 2
  /\ Get(items[1], "type") = Get(items[2], "type")
  /\ Get(items[1], "@type") = Get(items[2], "@type")
  /\ Truthy(Get(items[1], "from")) /\ ~Truthy(Get(items[2], "from"))
  /\ Dispatched(0) = {"concept"} /\ Dispatched(1) = {"concept"}

\* a string type field that names a concept scheme
NamesScheme(tf) == tf.t = "string" /\ StrIncludes(tf.s, ConceptScheme)

\* C3: a record without `from`/`to` whose type field is a string containing
\* 'ConceptScheme' is passed to the scheme validator and to no other.
C3_SchemeGoesToScheme ==
  \A i \in Processed :
    (/\ items[i + 1].t = "object"
     /\ ~Truthy(Get(items[i + 1], "from")) /\ ~Truthy(Get(items[i + 1], "to"))
     /\ NamesScheme(TypeFieldOf(items[i + 1])))
    => Dispatched(i) = {"scheme"}

\* neither a mapping, nor a concept, nor a scheme: the three tests of the
\* chain all evaluate, and all to false
Unknown(item) ==
  /\ ~GetThrows(item)
  /\ ~HasFromAndTo(item)
  /\ LET tf == Or(Get(item, "type"), Get(item, "@type")) IN
       \/ ~Truthy(tf)
       \/ /\ tf.t = "string"
          /\ ~StrIncludes(tf.s, SkosConcept) /\ ~StrIncludes(tf.s, ConceptScheme)
       \/ /\ tf.t = "array"
          /\ ~ArrIncludes(tf.a, SkosConcept) /\ ~ArrIncludes(tf.a, ConceptScheme)

C5_NoShapeAborts ==
  \A k \in At({"throw"}) : trace[k].err # "TypeError"

\* C6: every rejection is followed at once by the INVALID line with the
\* record's index and then by one line for each message that very call left
\* behind, in order and nothing else; every INVALID line and every message
\* line belongs to such a block; and the invalid counter counts the INVALID
\* lines one by one.
C6_InvalidReport ==
  /\ \A k \in At({"return"}) : ~trace[k].ok =>
       LET m == Len(trace[k].left) IN
         /\ k + 1 + m <= Len(trace)
         /\ trace[k + 1].ev = "INVALID" /\ trace[k + 1].idx = trace[k].idx
         /\ \A n \in 1..m :
              /\ trace[k + 1 + n].ev = "error"
              /\ trace[k + 1 + n].msg = trace[k].left[n]
              /\ trace[k + 1 + n].msg.by = trace[k].v
              /\ trace[k + 1 + n].msg.of = trace[k].idx
         /\ k + 2 + m <= Len(trace) => trace[k + 2 + m].ev # "error"
  /\ \A k \in At({"INVALID"}) :
       k > 1 /\ trace[k - 1].ev = "return" /\ ~trace[k - 1].ok
  /\ \A k \in At({"error"}) :
       k > 1 /\ trace[k - 1].ev \in {"INVALID", "error"}
  /\ countInvalid = Cardinality(At({"INVALID"}))

\* the second record was rejected with a message while another validator
\* still held the messages of its rejection of the first record
C6_Witness ==
  \E k \in At({"return"}) :
    /\ trace[k].idx = 1 /\ ~trace[k].ok /\ Len(trace[k].left) >= 1
    /\ \E w \in Validators \ {trace[k].v} : errorMessages[w] # <<>>

\* the run is over and every line had parsed
OverAfterParsing ==
  /\ pc \in {"done", "aborted"}
  /\ \A k \in At({"throw"}) : trace[k].err = "TypeError"

\* C7: in a run in which all lines parse the summary is printed exactly
\* once, last, and after the outcome of every record.
C7_SummaryOnceAfterAll ==
  OverAfterParsing =>
    /\ Cardinality(At({"summary"})) = 1
    /\ trace[Len(trace)].ev = "summary"
    /\ \A i \in 0..(Len(items) - 1) :
         \E o \in At(OutcomeKinds) : trace[o].idx = i

\* C8: records are validated and reported in file order, one at a time: a
\* validator call is followed at once by its own return, every record before
\* the one being validated already has its outcome line, and the outcome
\* lines come in increasing index order.
C8_InFileOrder ==
  /\ \A k \in At({"call"}) :
       /\ k < Len(trace)
       /\ trace[k + 1].ev = "return"
       /\ trace[k + 1].v = trace[k].v /\ trace[k + 1].idx = trace[k].idx
       /\ \A i \in 0..(trace[k].idx - 1) :
            \E o \in At(OutcomeKinds) : o < k /\ trace[o].idx = i
  /\ \A o1, o2 \in At(OutcomeKinds) : o1 < o2 => trace[o1].idx < trace[o2].idx

\* the first record was found valid and the second was validated after it
C8_Witness ==
  /\ \E o \in At({"valid"}) : trace[o].idx = 0
  /\ \E k \in At({"call"}) : trace[k].idx = 1

\* C9, as claimed: one file is read, the one the first argument names when an
\* argument is given and jskos-mappings.ndjson when none is.
C9_ArgumentNamesFile ==
  pc # "start" =>
    /\ Cardinality(At({"read"})) = 1
    /\ \A k \in At({"read"}) :
         trace[k].path = IF Len(args) >= 1 THEN args[1] ELSE DefaultPath

\* C9, amended: one file is read, the one the first argument names when a
\* non-empty argument is given and jskos-mappings.ndjson when the argument is
\* missing or empty.
C9_NonEmptyArgumentNamesFile ==
  pc # "start" =>
    /\ Cardinality(At({"read"})) = 1
    /\ \A k \in At({"read"}) :
         /\ (Len(args) >= 1 /\ args[1] # "") => trace[k].path = args[1]
         /\ (Len(args) = 0 \/ args[1] = "") => trace[k].path = DefaultPath

\* a run given a file name that has read that file and gone on to the end
C9_Witness ==
  /\ pc = "done"
  /\ args = <<"other.ndjson">>
  /\ \E k \in At({"read"}) : trace[k].path = "other.ndjson"

\* C10: a line that is not JSON aborts the run before anything is validated,
\* reported or summed up.
C10_BadLineAborts ==
  (pc \notin {"start", "parse"} /\ \E i \in 1..Len(lines) : ~JSONparse(lines[i]).ok)
    => /\ pc = "aborted"
       /\ At({"call", "return", "valid", "INVALID", "error", "skip",
              "summary"}) = {}

\* every line is parsed before any record is validated
C10_Witness ==
  /\ pc = "aborted"
  /\ Len(lines) = 2
  /\ JSONparse(lines[1]).ok
  /\ Branch(JSONparse(lines[1]).val) \in Validators
  /\ ~JSONparse(lines[2]).ok

\* C11: every value DataCite 4.6 adds is found in the controlled list of the
\* context it belongs to.
C11_ListsHoldWhat46Adds ==
  (query.kind = "term" /\ answer.done /\ <<query.list, query.term>> \in Added46)
    => answer.found

\* Award has been looked up in resourceTypeGeneralList and found
C11_Witness ==
  /\ query = TermQuery("resourceTypeGeneralList", "Award")
  /\ answer.done /\ answer.found

\* the nine lists the alignment analysis counts, with the counts it states
StatedCounts ==
  [ resourceTypeGeneralList |-> 31, descriptionTypeList |-> 6,
    contributorTypeList |-> 21, dateTypeList |-> 12, nameTypeList |-> 2,
    relatedIdentifierTypeList |-> 20, relationTypeList |-> 38,
    funderIdentifierTypeList |-> 5, titleTypeList |-> 4 ]

\* the counts of the lists as they are
ActualCounts ==
  [ resourceTypeGeneralList |-> 32, descriptionTypeList |-> 6,
    contributorTypeList |-> 22, dateTypeList |-> 12, nameTypeList |-> 2,
    relatedIdentifierTypeList |-> 21, relationTypeList |-> 38,
    funderIdentifierTypeList |-> 5, titleTypeList |-> 4 ]

RECURSIVE TotalOf(_)
TotalOf(names) ==
  IF names = {} THEN 0
  ELSE LET n == CHOOSE x \in names : TRUE
       IN Len(ContextList(n)) + TotalOf(names \ {n})

C12_NeedsCreatorsAndTitles ==
  (query.kind = "record" /\ answer.done /\ answer.valid)
    => \A n \in {"creators", "titles"} :
         /\ n \in DOMAIN query.doc.f
         /\ query.doc.f[n].t = "array"
         /\ Len(query.doc.f[n].a) >= 1

\* a record with a creator, an empty `titles` and nothing else amiss has been
\* rejected
C12_Witness ==
  /\ query.kind = "record"
  /\ query.doc = Record(Arr(<<GoodCreator>>), Arr(<<>>), "none")
  /\ answer.done /\ ~answer.valid

\* the properties of the record that hold arrays of objects
ObjectArrays ==
  {"creators", "titles", "subjects", "contributors", "dates",
   "alternateIdentifiers", "relatedIdentifiers"}

\* the record, its publisher or an entry of one of its object arrays carries a
\* property that the schema does not declare for it
HasUndeclared(doc) ==
  \/ DOMAIN doc.f \ DOMAIN RootSchema.properties # {}
  \/ /\ "publisher" \in DOMAIN doc.f
     /\ doc.f["publisher"].t = "object"
     /\ DOMAIN doc.f["publisher"].f
          \ DOMAIN RootSchema.properties["publisher"].properties # {}
  \/ \E n \in ObjectArrays \cap DOMAIN doc.f :
       /\ doc.f[n].t = "array"
       /\ \E i \in 1..Len(doc.f[n].a) :
            /\ doc.f[n].a[i].t = "object"
            /\ DOMAIN doc.f[n].a[i].f
                 \ DOMAIN RootSchema.properties[n].items.properties # {}

\* C13: the schema is strict: a record with an undeclared property, at the
\* top or in a creator, title, publisher, subject, contributor, date,
\* alternateIdentifier or relatedIdentifier, is rejected.
C13_UndeclaredRejected ==
  (query.kind = "record" /\ answer.done /\ HasUndeclared(query.doc))
    => ~answer.valid

\* a record whose only fault is an undeclared property in a date has been
\* rejected
C13_Witness ==
  /\ query.kind = "record"
  /\ query.doc = Record(Arr(<<GoodCreator>>), Arr(<<GoodTitle>>), "dateExtra")
  /\ answer.done /\ ~answer.valid

\* C15: mapping is tried first, then concept, then scheme, and the first test
\* that matches wins: a record with `from` and `to` both truthy goes to the
\* mapping validator whatever its type field holds, a record without both
\* never does, and of the others a string type field that contains
\* 'skos:Concept' goes to the concept validator even if it contains
\* 'ConceptScheme' too.
C15_FirstMatchWins ==
  \A i \in Processed :
    LET item == items[i + 1]
        tf == Or(Get(item, "type"), Get(item, "@type"))
    IN /\ HasFromAndTo(item) => Dispatched(i) = {"mapping"}
       /\ ~HasFromAndTo(item) => "mapping" \notin Dispatched(i)
       /\ (~HasFromAndTo(item) /\ tf.t = "string" /\ StrIncludes(tf.s, SkosConcept))
            => Dispatched(i) = {"concept"}

\* a record with `from`, `to` and the type 'skos:Concept' went to the mapping
\* validator
C15_Witness ==
  \E i \in Processed :
    /\ HasFromAndTo(items[i + 1])
    /\ Get(items[i + 1], "type") = Str(SkosConcept)
    /\ Dispatched(i) = {"mapping"}

\* the warnings printed so far
Skipped == Cardinality(At({"skip"}))

\* C16: the three tallies add up to the number of records processed, a
\* record moves exactly one of them, by one, and none ever goes down.
C16_TalliesAddUp ==
  /\ [](countValid + countInvalid + Skipped = idx)
  /\ [][/\ countValid' >= countValid
        /\ countInvalid' >= countInvalid
        /\ Skipped' >= Skipped
        /\ idx' = idx + 1 =>
             (countValid' - countValid) + (countInvalid' - countInvalid)
               + (Skipped' - Skipped) = 1]_vars

\* two records processed, one counted as invalid and one skipped
C16_Witness == idx = 2 /\ countInvalid = 1 /\ Skipped = 1

\* the validator calls made for record i
CallsFor(i) == {k \in At({"call"}) : trace[k].idx = i}

\* C17: a record is passed to one validator once or, if skipped, to none, and
\* the calls made are as many as the records counted valid or invalid.
C17_OneCallPerRecord ==
  /\ \A i \in Processed :
       Cardinality(CallsFor(i)) =
         IF \E w \in At({"skip"}) : trace[w].idx = i THEN 0 ELSE 1
  /\ \A k \in At({"call"}) : Cardinality(CallsFor(trace[k].idx)) = 1
  /\ Cardinality(At({"call"})) = countValid + countInvalid

\* a skipped record and a rejected record, one call in all
C17_Witness ==
  /\ idx = 2
  /\ Cardinality(CallsFor(0)) = 0
  /\ Cardinality(CallsFor(1)) = 1
  /\ countInvalid = 1

\* C18: a run on a file whose lines all parse ends with every record visited
\* once and the summary printed after the last of them.
C18_EndsWithSummary ==
  OverAfterParsing
    => /\ pc = "done"
       /\ idx = Len(items)
       /\ \A i \in 0..(Len(items) - 1) :
            Cardinality({o \in At(OutcomeKinds) : trace[o].idx = i}) = 1
       /\ trace[Len(trace)].ev = "summary"

\* C19: the field that classifies a record and is shown in its outcome line
\* is `type` when `type` is truthy and `@type` otherwise: a record without
\* `from` and `to` whose truthy `type` is a string or an array that matches
\* neither test is skipped whatever its `@type`.
C19_TypeBeforeAtType ==
  /\ \A k \in At({"valid", "INVALID"}) :
       LET item == items[trace[k].idx + 1] IN
         trace[k].tf = IF Truthy(Get(item, "type")) THEN Get(item, "type")
                       ELSE Get(item, "@type")
  /\ \A i \in Processed :
       LET ty == Get(items[i + 1], "type") IN
         (/\ ~HasFromAndTo(items[i + 1])
          /\ \/ /\ ty.t = "string" /\ ty.s # <<>>
                /\ ~StrIncludes(ty.s, SkosConcept)
                /\ ~StrIncludes(ty.s, ConceptScheme)
             \/ /\ ty.t = "array"
                /\ \A k \in 1..Len(ty.a) :
                     ty.a[k] \notin {Str(SkosConcept), Str(ConceptScheme)})
           => Dispatched(i) = {"skip"}

\* a record with the type 'x' and the @type 'skos:Concept' was skipped
C19_Witness ==
  \E i \in Processed :
    /\ Get(items[i + 1], "type") = Str(<<"x">>)
    /\ Get(items[i + 1], "@type") = Str(SkosConcept)
    /\ Dispatched(i) = {"skip"}

\* some element of the array is the string itself
HasElement(a, n) == \E k \in 1..Len(a) : a[k] = [t |-> "string", s |-> n]

\* C20: for a record that is not a mapping, a string type field is tested for
\* the substring 'skos:Concept' and else for the substring 'ConceptScheme'; an
\* array type field is tested for the element 'skos:Concept' and else for the
\* element 'ConceptScheme', and the record is skipped if it has neither.
C20_SubstringOrElement ==
  \A i \in Processed :
    LET item == items[i + 1]
        tf == Or(Get(item, "type"), Get(item, "@type"))
    IN ~HasFromAndTo(item) =>
         /\ tf.t = "string" =>
              Dispatched(i) =
                IF StrIncludes(tf.s, SkosConcept) THEN {"concept"}
                ELSE IF StrIncludes(tf.s, ConceptScheme) THEN {"scheme"}
                ELSE {"skip"}
         /\ tf.t = "array" =>
              Dispatched(i) =
                IF HasElement(tf.a, SkosConcept) THEN {"concept"}
                ELSE IF HasElement(tf.a, ConceptScheme) THEN {"scheme"}
                ELSE {"skip"}

\* a record whose type is an array holding the full URI of ConceptScheme was
\* skipped
C20_Witness ==
  \E i \in Processed :
    /\ Get(items[i + 1], "type") = Arr(<<Str(UriConceptScheme)>>)
    /\ Dispatched(i) = {"skip"}

\* the file was found and read
FileRead ==
  /\ At({"read"}) # {}
  /\ \A k \in At({"throw"}) : trace[k].err # "ENOENT"

\* the lines of the file that hold more than white space
Inked(t) == {p \in DOMAIN t : t[p] \notin {"", " "}}

\* the lines of the file that count: not empty, and not part of the white
\* space the file begins or ends with
RecordLines(t) ==
  {p \in DOMAIN t : t[p] # "" /\ \E a, b \in Inked(t) : a <= p /\ p <= b}

\* the 0-based position of line p among the lines that count
PositionOf(t, p) == Cardinality({q \in RecordLines(t) : q < p})

\* the line at 0-based position i among the lines that count
LineAt(t, i) == CHOOSE p \in RecordLines(t) : PositionOf(t, p) = i

\* C21: the index printed in a valid, INVALID or skip line is the 0-based
\* position of the record among the non-empty lines of the file: empty lines
\* and the white space around the file are dropped, not parsed, and take no
\* index, and the indices printed go up from 0 by one.
C21_IndexIsPositionAmongNonEmpty ==
  FileRead =>
    /\ (\E k \in At({"throw"}) : trace[k].err = "SyntaxError")
         => \E p \in RecordLines(text) : ~JSONparse(text[p]).ok
    /\ pc \in {"loop", "done"}
         => /\ Len(items) = Cardinality(RecordLines(text))
            /\ \A i \in 0..(Len(items) - 1) :
                 items[i + 1] = JSONparse(text[LineAt(text, i)]).val
    /\ \A k \in At(OutcomeKinds) :
         LET i == trace[k].idx
         IN /\ i \in 0..(Cardinality(RecordLines(text)) - 1)
            /\ i = Cardinality({j \in At(OutcomeKinds) : j < k})
            /\ LET item == JSONparse(text[LineAt(text, i)]).val
               IN IF trace[k].ev = "skip"
                  THEN Branch(item) = "skip"
                  ELSE /\ Branch(item) \in Validators
                       /\ trace[k].tf = TypeFieldOf(item)

\* a file of three lines, the middle one empty, whose third line was
\* reported with index 1
C21_Witness ==
  /\ FileRead
  /\ Len(text) = 3 /\ text[1] # "" /\ text[2] = ""
  /\ \E k \in At(OutcomeKinds) : trace[k].idx = 1

\* the file is empty or holds empty lines only
OnlyEmptyLines == FileRead /\ \A p \in DOMAIN text : text[p] = ""

\* C22: for a file that is empty or holds only empty lines no validator is
\* called, no line is printed for any record, nothing is thrown, and the
\* summary reports 0 valid and 0 invalid.
C22_EmptyFileReportsZero ==
  OnlyEmptyLines =>
    /\ At({"call", "return", "valid", "INVALID", "error", "skip", "throw"}) = {}
    /\ pc \in {"parse", "loop", "done"}
    /\ pc = "loop" => idx = Len(items)
    /\ pc = "done" => trace[Len(trace)] = SummaryEv(0, 0)

\* a file of three empty lines has been run to its summary
C22_Witness ==
  /\ OnlyEmptyLines
  /\ Len(text) = 3
  /\ pc = "done"

\* the value schemas of the JSON Schema that go with a controlled list of the
\* context: nameType is declared for creators and for contributors
EnumSchemas ==
  [ resourceTypeGeneralList |->
      {RootSchema.properties["resourceTypeGeneral"]},
    titleTypeList |->
      {RootSchema.properties["titles"].items.properties["titleType"]},
    nameTypeList |->
      {RootSchema.properties["creators"].items.properties["nameType"],
       RootSchema.properties["contributors"].items.properties["nameType"]} ]

\* C23: the schema accepts as resourceTypeGeneral, titleType and nameType
\* exactly the values of resourceTypeGeneralList, titleTypeList and
\* nameTypeList: a value looked up in one of these lists is found there if
\* and only if the schema accepts it for the property.
C23_EnumsEqualLists ==
  (query.kind = "term" /\ answer.done /\ query.list \in DOMAIN EnumSchemas)
    => \A s \in EnumSchemas[query.list] :
         /\ "enum" \in DOMAIN s
         /\ answer.found <=> Valid(s, Text(query.term), TRUE)

\* Other has been looked up in titleTypeList and found
C23_Witness ==
  /\ query = TermQuery("titleTypeList", "Other")
  /\ answer.done /\ answer.found

\* the object schemas of a schema: the schema itself if it declares or
\* requires properties, and those of its properties and of its items
RECURSIVE ObjectSchemas(_)
ObjectSchemas(s) ==
  (IF "properties" \in DOMAIN s \/ "required" \in DOMAIN s THEN {s} ELSE {})
    \cup (IF "properties" \in DOMAIN s
          THEN UNION {ObjectSchemas(s.properties[p]) : p \in DOMAIN s.properties}
          ELSE {})
    \cup (IF "items" \in DOMAIN s THEN ObjectSchemas(s.items) ELSE {})

\* the optional properties a record may add without fault
WellFormedAdditions ==
  {"none", "subjects", "contributors", "dates", "alternateIdentifiers",
   "relatedIdentifiers"}

\* C24: at the top and in every nested object schema each required property
\* is declared in `properties`, so that a record holding what is required,
\* as the schema wants it, is accepted although undeclared properties are
\* forbidden.
C24_RequiredAreDeclared ==
  /\ \A s \in ObjectSchemas(RootSchema) :
       /\ "properties" \in DOMAIN s
       /\ "required" \in DOMAIN s => s.required \subseteq DOMAIN s.properties
  /\ (/\ query.kind = "record" /\ answer.done
      /\ \E w \in WellFormedAdditions :
           query.doc = Record(Arr(<<GoodCreator>>), Arr(<<GoodTitle>>), w))
       => answer.valid

\* a record with what is required and one subject has been accepted
C24_Witness ==
  /\ query.kind = "record"
  /\ query.doc = Record(Arr(<<GoodCreator>>), Arr(<<GoodTitle>>), "subjects")
  /\ answer.done /\ answer.valid

====
